---- MODULE Spec2Model ----
(***************************************************************************)
(* The Ansible module grafana_contact_point                                *)
(* (plugins/modules/grafana_contact_point.py): one invocation ("pass")     *)
(* reconciles one contact point, identified by its uid, against the        *)
(* contact points held by a remote Grafana.                                *)
(*                                                                         *)
(* A pass is a sequence of blocking HTTP calls (fetch_url).  Every action  *)
(* below is one function of the source that performs one call: the request,*)
(* the remote's answer and the code that handles the answer, up to the     *)
(* next call.  The remote is the environment: it answers each request      *)
(* either as the provisioning API documents or with a fault status that    *)
(* leaves its contact points alone.                                        *)
(*                                                                         *)
(* Python values: None is the empty tuple and a present optional value v   *)
(* is <<v>>; a dict is a record, and dicts with different keys are records *)
(* with different domains.  json.dumps/json.loads of the dicts of strings, *)
(* booleans and None used here is lossless, so a body is carried as the    *)
(* record itself.                                                          *)
(***************************************************************************)
EXTENDS Integers, Sequences, FiniteSets, TLC

\* Number of passes run one after another.
MaxPasses == 3
\* Longest email_addresses list.
MaxAddrs == 2

\* Statuses the code tests for.
HTTP_OK == 200
HTTP_ACCEPTED == 202
HTTP_NOT_FOUND == 404
\* Every status the remote may answer with.
Statuses == {HTTP_OK, HTTP_ACCEPTED, HTTP_NOT_FOUND, 500}

None == <<>>
Some(v) == <<v>>

\* The passes that can run; the sequential specification runs the first.
Procs == {1, 2}
SeqProcs == {1}

Uids == {"A", "B"}
Names == {"E-Mail"}
OrgIds == {1, 2}
OrgNames == {"Main Org."}

Addr(i) == "u" \o ToString(i) \o "@example.com"
AddrLists == {[i \in 1..n |-> Addr(i)] : n \in 1..MaxAddrs}

(***************************************************************************)
(* Inputs: module.params as main() hands them on.                          *)
(***************************************************************************)
\* state=present requires name and type; type=email requires email_addresses.
PresentStates ==
    [state : {"present"}, uid : Uids, name : {Some(n) : n \in Names},
     type : {Some("email")}, is_default : {FALSE},
     disable_resolve_message : {FALSE}, include_image : BOOLEAN,
     email_addresses : {Some(l) : l \in AddrLists},
     email_single : {None, Some(FALSE), Some(TRUE)}]

\* state=absent as in the module's example: only the uid is given.
AbsentStates ==
    [state : {"absent"}, uid : Uids, name : {None}, type : {None},
     is_default : {FALSE}, disable_resolve_message : {FALSE},
     include_image : {FALSE}, email_addresses : {None},
     email_single : {None}]

DesiredStates == PresentStates \cup AbsentStates

\* grafana_api_key and url_username are mutually exclusive.
AuthParams ==
    {[grafana_api_key |-> Some("key"), org_name |-> None, org_id |-> 1]}
    \cup [grafana_api_key : {None}, org_name : {None}, org_id : OrgIds]
    \cup [grafana_api_key : {None}, org_name : {Some(n) : n \in OrgNames},
          org_id : {1}]

DesiredFields ==
    {"state", "uid", "name", "type", "is_default", "disable_resolve_message",
     "include_image", "email_addresses", "email_single"}

\* The desired state held in a params dict.
Desired(prm) == [k \in DesiredFields |-> prm[k]]

(***************************************************************************)
(* Payload builder.                                                        *)
(***************************************************************************)
RECURSIVE Join(_, _)
\* sep.join(list)
Join(sep, l) ==
    IF Len(l) = 0 THEN ""
    ELSE IF Len(l) = 1 THEN l[1]
    ELSE l[1] \o sep \o Join(sep, Tail(l))

\* Python truthiness of an optional bool.
Truthy(o) == o # None /\ o[1] = TRUE

\* Mutant of grafana_contact_point_payload_email: singleEmail is set whenever
\* email_single is given, false included.
grafana_contact_point_payload_email_given(data, payload) ==
    LET withAddresses ==
            [payload EXCEPT !.settings =
                [uploadImage |-> payload.settings.uploadImage,
                 addresses |-> Join(";", data.email_addresses[1])]]
    IN  IF data.email_single # None
        THEN [withAddresses EXCEPT !.settings =
                [uploadImage |-> withAddresses.settings.uploadImage,
                 addresses |-> withAddresses.settings.addresses,
                 singleEmail |-> data.email_single[1]]]
        ELSE withAddresses

grafana_contact_point_payload_email(data, payload) ==
    LET withAddresses ==
            [payload EXCEPT !.settings =
                [uploadImage |-> payload.settings.uploadImage,
                 addresses |-> Join(";", data.email_addresses[1])]]
    IN  IF Truthy(data.email_single)
        THEN [withAddresses EXCEPT !.settings =
                [uploadImage |-> withAddresses.settings.uploadImage,
                 addresses |-> withAddresses.settings.addresses,
                 singleEmail |-> data.email_single[1]]]
        ELSE withAddresses

grafana_contact_point_payload(data) ==
    LET payload ==
            [uid |-> data.uid,
             name |-> data.name,
             type |-> data.type,
             isDefault |-> data.is_default,
             disableResolveMessage |-> data.disable_resolve_message,
             settings |-> [uploadImage |-> data.include_image]]
    IN  IF data.type = Some("email")
        THEN grafana_contact_point_payload_email(data, payload)
        ELSE payload

(***************************************************************************)
(* The remote: its contact points, one per uid, and its answers.  An       *)
(* answer is the status, the decoded body and the contact points the       *)
(* request leaves behind.  A request is served as documented or is refused *)
(* with some other status and no effect.  The body that echoes a contact   *)
(* point is the stored entry, or the entry with a field the remote         *)
(* defaulted.                                                              *)
(***************************************************************************)
Put(st, uid, entry) ==
    [u \in DOMAIN st \cup {uid} |-> IF u = uid THEN entry ELSE st[u]]

Remove(st, uid) == [u \in DOMAIN st \ {uid} |-> st[u]]

Entries(st) == {st[u] : u \in DOMAIN st}

Normalized(entry) ==
    [uid |-> entry.uid, name |-> entry.name, type |-> entry.type,
     isDefault |-> entry.isDefault,
     disableResolveMessage |-> entry.disableResolveMessage,
     settings |-> entry.settings, provenance |-> "api"]

Echo(entry) == {entry, Normalized(entry)}

Refused(st, served) ==
    {[status |-> s, body |-> None, store |-> st] : s \in Statuses \ served}

\* GET /api/user/orgs: the organizations the user is a member of.
Organizations ==
    {[orgId |-> 1, name |-> "Main Org."], [orgId |-> 2, name |-> "Other Org."]}

\* POST /api/user/using/{orgId}
RemoteSwitchOrg(st) ==
    {[status |-> HTTP_OK, body |-> None, store |-> st]}
    \cup Refused(st, {HTTP_OK})

\* GET /api/v1/provisioning/contact-points
RemoteList(st) ==
    {[status |-> HTTP_OK, body |-> Some(Entries(st)), store |-> st]}
    \cup Refused(st, {HTTP_OK})

\* POST /api/v1/provisioning/contact-points
RemoteCreate(st, payload) ==
    {[status |-> HTTP_ACCEPTED, body |-> Some(b),
      store |-> Put(st, payload.uid, payload)] : b \in Echo(payload)}
    \cup Refused(st, {HTTP_ACCEPTED})

\* PUT /api/v1/provisioning/contact-points/{uid}
RemoteUpdate(st, uid, payload) ==
    (IF uid \in DOMAIN st
     THEN {[status |-> HTTP_ACCEPTED, body |-> Some(b),
            store |-> Put(st, uid, payload)] : b \in Echo(payload)}
     ELSE {})
    \cup Refused(st, {HTTP_ACCEPTED})

\* DELETE /api/v1/provisioning/contact-points/{uid}
RemoteDelete(st, uid) ==
    (IF uid \in DOMAIN st
     THEN {[status |-> HTTP_ACCEPTED, body |-> None, store |-> Remove(st, uid)]}
     ELSE {[status |-> HTTP_NOT_FOUND, body |-> None, store |-> st]})
    \cup Refused(st, {HTTP_ACCEPTED, HTTP_NOT_FOUND})

(***************************************************************************)
(* State.                                                                  *)
(***************************************************************************)
VARIABLES
    store,      \* the remote's contact points: uid -> entry
    passes,     \* passes started so far
    pc,         \* pc[p]: where pass p stands
    params,     \* module.params of pass p
    org_id,     \* self.org_id
    before,     \* the entry matched in the list, or None
    payload,    \* the payload built by grafana_handle_contact_point
    resp,       \* the answer to the last request: status and body
    result,     \* the dict handed to exit_json, or None
    exception,  \* the exception that ended the pass, or None
    reqs,       \* the requests pass p has issued, in order, with their status
    store0,     \* the remote's contact points when pass p started
    last,       \* the pass p ran before: its desired state and how it ended
    prev        \* how that pass ended, when this one has the same desired state

vars == <<store, passes, pc, params, org_id, before, payload, resp, result,
          exception, reqs, store0, last, prev>>

\* Contact points the remote may hold before the first pass: none, or entries
\* that earlier runs created from SeedState.
SeedState(uid) ==
    [state |-> "present", uid |-> uid, name |-> Some("E-Mail"),
     type |-> Some("email"), is_default |-> FALSE,
     disable_resolve_message |-> FALSE, include_image |-> FALSE,
     email_addresses |-> Some(<<Addr(1)>>), email_single |-> None]

InitStores ==
    {[u \in present |-> grafana_contact_point_payload(SeedState(u))] :
        present \in SUBSET Uids}

Init ==
    /\ store \in InitStores
    /\ passes = 0
    /\ pc = [p \in Procs |-> "idle"]
    /\ params = [p \in Procs |-> None]
    /\ org_id = [p \in Procs |-> None]
    /\ before = [p \in Procs |-> None]
    /\ payload = [p \in Procs |-> None]
    /\ resp = [p \in Procs |-> None]
    /\ result = [p \in Procs |-> None]
    /\ exception = [p \in Procs |-> None]
    /\ reqs = [p \in Procs |-> <<>>]
    /\ store0 = [p \in Procs |-> <<>>]
    /\ last = [p \in Procs |-> None]
    /\ prev = [p \in Procs |-> None]

Request(op, method, path, body, status) ==
    [op |-> op, method |-> method, path |-> path, body |-> body,
     status |-> status]

\* fetch_url: the request is logged with the status it was answered with.
Fetch(p, req, answer) ==
    /\ reqs' = [reqs EXCEPT ![p] = Append(@, req)]
    /\ resp' = [resp EXCEPT ![p] = Some([status |-> answer.status,
                                         body |-> answer.body])]
    /\ store' = answer.store

\* Mutant of Raise: the error is swallowed and the call made again.
Raise_and_retry(p, type, msg, status) ==
    /\ pc' = pc
    /\ exception' = exception

\* An exception nobody catches: main() ends without exit_json.
Raise(p, type, msg, status) ==
    /\ pc' = [pc EXCEPT ![p] = "failed"]
    /\ exception' = [exception EXCEPT ![p] =
                        Some([type |-> type, msg |-> msg, status |-> status])]

\* module.exit_json(failed=False, **result)
Return(p, res) ==
    /\ pc' = [pc EXCEPT ![p] = "done"]
    /\ result' = [result EXCEPT ![p] = Some(res)]

(***************************************************************************)
(* The pass.                                                               *)
(***************************************************************************)
\* What a finished pass leaves for the next one to be compared with.
Summary(p) ==
    [done |-> pc[p] = "done",
     changed |-> pc[p] = "done" /\ result[p][1].changed,
     had |-> params[p].uid \in DOMAIN store0[p]]

\* main() up to the construction of the interface: the arguments are parsed.
main(p) ==
    /\ pc[p] = "idle"
    /\ passes < MaxPasses
    /\ passes' = passes + 1
    /\ \E d \in DesiredStates, a \in AuthParams :
          /\ params' = [params EXCEPT ![p] =
                [k \in DesiredFields \cup DOMAIN a |->
                    IF k \in DesiredFields THEN d[k] ELSE a[k]]]
          /\ prev' = [prev EXCEPT ![p] =
                IF last[p] # None /\ last[p][1].desired = d
                THEN Some(last[p][1].summary) ELSE None]
    /\ pc' = [pc EXCEPT ![p] = "init"]
    /\ store0' = [store0 EXCEPT ![p] = store]
    /\ last' = [last EXCEPT ![p] = None]
    /\ UNCHANGED <<store, org_id, before, payload, resp, result, exception,
                   reqs>>

\* The body of grafana_organization_by_name, past its request: next() is
\* given no default, so a name that is not listed raises StopIteration.  No
\* pass gets here: the only call of the method raises TypeError (below).
grafana_organization_by_name(organizations, org_name) ==
    IF \E org \in organizations : org.name = org_name
    THEN [returns |-> (CHOOSE org \in organizations : org.name = org_name).orgId]
    ELSE [raises |-> "StopIteration"]

\* GrafanaContactPointInterface.__init__ up to its first request.  With
\* org_name set it calls grafana_organization_by_name(org_name), a method of
\* two parameters (data, org_name): the call raises TypeError before the
\* method's body runs, so no request is issued.
GrafanaContactPointInterface(p) ==
    /\ pc[p] = "init"
    /\ IF params[p].grafana_api_key # None
       THEN /\ pc' = [pc EXCEPT ![p] = "check"]
            /\ UNCHANGED <<org_id, exception>>
       ELSE IF params[p].org_name # None
       THEN /\ Raise(p, "TypeError", "grafana_organization_by_name", None)
            /\ UNCHANGED org_id
       ELSE /\ org_id' = [org_id EXCEPT ![p] = Some(params[p].org_id)]
            /\ pc' = [pc EXCEPT ![p] = "switch"]
            /\ UNCHANGED exception
    /\ UNCHANGED <<store, passes, params, before, payload, resp, result, reqs,
                   store0, last, prev>>

\* Mutant of switch_refused: only the error statuses raise.
switch_refused_from_400(status) == status >= 400

\* if info["status"] != 200: raise
switch_refused(status) == status # HTTP_OK

grafana_switch_organisation(p) ==
    /\ pc[p] = "switch"
    /\ \E answer \in RemoteSwitchOrg(store) :
          /\ Fetch(p, Request("switch_org", "POST",
                              "/api/user/using/" \o ToString(org_id[p][1]),
                              None, answer.status), answer)
          /\ IF switch_refused(answer.status)
             THEN Raise(p, "GrafanaAPIException",
                        "Unable to switch to organization", Some(answer.status))
             ELSE /\ pc' = [pc EXCEPT ![p] = "check"]
                  /\ UNCHANGED exception
    /\ UNCHANGED <<passes, params, org_id, before, payload, result, store0,
                   last, prev>>

\* Mutant of contact_point_match: the entry is looked up by its name.
contact_point_match_by_name(contact_points, data) ==
    IF \E cp \in contact_points : cp.name = data.name
    THEN Some(CHOOSE cp \in contact_points : cp.name = data.name)
    ELSE None

\* next((cp for cp in contact_points if cp["uid"] == data["uid"]), None)
contact_point_match(contact_points, data) ==
    IF \E cp \in contact_points : cp.uid = data.uid
    THEN Some(CHOOSE cp \in contact_points : cp.uid = data.uid)
    ELSE None

\* Mutant of list_match: a list that was refused reads as an empty list.
list_match_or_empty(answer, data) ==
    IF answer.status = HTTP_OK
    THEN Some(contact_point_match(answer.body[1], data))
    ELSE Some(None)

\* What grafana_check_contact_point_match makes of the answer: the match
\* handed to grafana_handle_contact_point, or None (raise).
list_match(answer, data) ==
    IF answer.status = HTTP_OK
    THEN Some(contact_point_match(answer.body[1], data))
    ELSE None

\* Mutant of grafana_handle_contact_point: present always creates.
grafana_handle_contact_point_create(data, bef) ==
    IF data.state = "present"
    THEN "create"
    ELSE IF bef # None THEN "delete" ELSE "noop"

\* Mutant of grafana_handle_contact_point: absent always deletes.
grafana_handle_contact_point_delete(data, bef) ==
    IF data.state = "present"
    THEN IF bef # None THEN "update" ELSE "create"
    ELSE "delete"

\* Mutant of grafana_handle_contact_point: an entry that already equals the
\* payload is left alone.
grafana_handle_contact_point_skip_equal(data, bef) ==
    IF data.state = "present"
    THEN IF bef # None
         THEN IF bef = Some(grafana_contact_point_payload(data))
              THEN "noop" ELSE "update"
         ELSE "create"
    ELSE IF bef # None THEN "delete" ELSE "noop"

\* The call grafana_handle_contact_point goes on with.
grafana_handle_contact_point(data, bef) ==
    IF data.state = "present"
    THEN IF bef # None THEN "update" ELSE "create"
    ELSE IF bef # None THEN "delete" ELSE "noop"

grafana_check_contact_point_match(p) ==
    /\ pc[p] = "check"
    /\ \E answer \in RemoteList(store) :
          /\ Fetch(p, Request("list", "GET",
                              "/api/v1/provisioning/contact-points",
                              None, answer.status), answer)
          /\ IF list_match(answer, params[p]) # None
             THEN LET bef == list_match(answer, params[p])[1]
                      call == grafana_handle_contact_point(params[p], bef)
                  IN  /\ before' = [before EXCEPT ![p] = bef]
                      /\ payload' = [payload EXCEPT ![p] =
                            Some(grafana_contact_point_payload(params[p]))]
                      /\ IF call = "noop"
                         THEN Return(p, [changed |-> FALSE])
                         ELSE /\ pc' = [pc EXCEPT ![p] = call]
                              /\ UNCHANGED result
                      /\ UNCHANGED exception
             ELSE /\ Raise(p, "GrafanaAPIException",
                           "Unable to get contact point", Some(answer.status))
                  /\ UNCHANGED <<before, payload, result>>
    /\ UNCHANGED <<passes, params, org_id, store0, last, prev>>

\* What grafana_create_contact_point makes of the answer: a dict or None (raise).
\* Mutant of create_result: any status below 300 counts as created.
create_result_any_2xx(data, answer) ==
    IF answer.status < 300
    THEN Some([changed |-> TRUE, state |-> data.state,
               contact_point |-> answer.body])
    ELSE None

create_result(data, answer) ==
    IF answer.status = HTTP_ACCEPTED
    THEN Some([changed |-> TRUE, state |-> data.state,
               contact_point |-> answer.body[1]])
    ELSE None

grafana_create_contact_point(p) ==
    /\ pc[p] = "create"
    /\ \E answer \in RemoteCreate(store, payload[p][1]) :
          /\ Fetch(p, Request("create", "POST",
                              "/api/v1/provisioning/contact-points",
                              payload[p], answer.status), answer)
          /\ IF create_result(params[p], answer) # None
             THEN /\ Return(p, create_result(params[p], answer)[1])
                  /\ UNCHANGED exception
             ELSE /\ Raise(p, "GrafanaAPIException",
                           "Unable to create contact point",
                           Some(answer.status))
                  /\ UNCHANGED result
    /\ UNCHANGED <<passes, params, org_id, before, payload, store0, last,
                   prev>>

\* Mutant of update_result: the comparison with the snapshot is left out.
update_result_always_changed(bef, sent, answer) ==
    IF answer.status = HTTP_ACCEPTED
    THEN Some([changed |-> TRUE,
               diff |-> [before |-> bef[1], after |-> sent],
               contact_point |-> answer.body[1]])
    ELSE None

\* Mutant of update_result: the diff shows the answer, not the payload.
update_result_after_answer(bef, sent, answer) ==
    IF answer.status = HTTP_ACCEPTED
    THEN IF bef = answer.body
         THEN Some([changed |-> FALSE])
         ELSE Some([changed |-> TRUE,
                    diff |-> [before |-> bef[1], after |-> answer.body[1]],
                    contact_point |-> answer.body[1]])
    ELSE None

\* What grafana_update_contact_point makes of the answer: a dict or None (raise).
update_result(bef, sent, answer) ==
    IF answer.status = HTTP_ACCEPTED
    THEN IF bef = answer.body
         THEN Some([changed |-> FALSE])
         ELSE Some([changed |-> TRUE,
                    diff |-> [before |-> bef[1], after |-> sent],
                    contact_point |-> answer.body[1]])
    ELSE None

\* Mutant of update_body: the payload is laid over the entry that was found,
\* so settings the payload does not name are sent as the remote had them.
update_body_patch(bef, built) ==
    [built EXCEPT !.settings =
        [k \in DOMAIN bef[1].settings \cup DOMAIN built.settings |->
            IF k \in DOMAIN built.settings
            THEN built.settings[k] ELSE bef[1].settings[k]]]

\* data=json.dumps(payload): the body of the PUT.
update_body(bef, built) == built

grafana_update_contact_point(p) ==
    /\ pc[p] = "update"
    /\ \E answer \in RemoteUpdate(store, params[p].uid,
                                  update_body(before[p], payload[p][1])) :
          /\ Fetch(p, Request("update", "PUT",
                              "/api/v1/provisioning/contact-points/"
                                  \o params[p].uid,
                              Some(update_body(before[p], payload[p][1])),
                              answer.status), answer)
          /\ IF update_result(before[p], payload[p][1], answer) # None
             THEN /\ Return(p, update_result(before[p], payload[p][1],
                                             answer)[1])
                  /\ UNCHANGED exception
             ELSE /\ Raise(p, "GrafanaAPIException",
                           "Unable to update contact point",
                           Some(answer.status))
                  /\ UNCHANGED result
    /\ UNCHANGED <<passes, params, org_id, before, payload, store0, last,
                   prev>>

\* Mutant of delete_result: a delete that was accepted reports no change.
delete_result_unchanged(status) ==
    IF status = HTTP_ACCEPTED \/ status = HTTP_NOT_FOUND
    THEN Some([changed |-> FALSE])
    ELSE None

\* Mutant of delete_result: every status but 202 counts as already gone.
delete_result_lenient(status) ==
    IF status = HTTP_ACCEPTED
    THEN Some([state |-> "absent", changed |-> TRUE])
    ELSE Some([changed |-> FALSE])

\* What grafana_delete_contact_point makes of the status: a dict or None (raise).
delete_result(status) ==
    IF status = HTTP_ACCEPTED
    THEN Some([state |-> "absent", changed |-> TRUE])
    ELSE IF status = HTTP_NOT_FOUND
    THEN Some([changed |-> FALSE])
    ELSE None

grafana_delete_contact_point(p) ==
    /\ pc[p] = "delete"
    /\ \E answer \in RemoteDelete(store, params[p].uid) :
          /\ Fetch(p, Request("delete", "DELETE",
                              "/api/v1/provisioning/contact-points/"
                                  \o params[p].uid,
                              None, answer.status), answer)
          /\ IF delete_result(answer.status) # None
             THEN /\ Return(p, delete_result(answer.status)[1])
                  /\ UNCHANGED exception
             ELSE /\ Raise(p, "GrafanaAPIException",
                           "Unable to delete contact point",
                           Some(answer.status))
                  /\ UNCHANGED result
    /\ UNCHANGED <<passes, params, org_id, before, payload, store0, last,
                   prev>>

\* The process ends, by exit_json or by the uncaught exception: nothing of
\* the invocation is kept.  (last remembers the pass for the next one's prev.)
exit(p) ==
    /\ pc[p] \in {"done", "failed"}
    /\ last' = [last EXCEPT ![p] =
            Some([desired |-> Desired(params[p]), summary |-> Summary(p)])]
    /\ pc' = [pc EXCEPT ![p] = "idle"]
    /\ params' = [params EXCEPT ![p] = None]
    /\ org_id' = [org_id EXCEPT ![p] = None]
    /\ before' = [before EXCEPT ![p] = None]
    /\ payload' = [payload EXCEPT ![p] = None]
    /\ resp' = [resp EXCEPT ![p] = None]
    /\ result' = [result EXCEPT ![p] = None]
    /\ exception' = [exception EXCEPT ![p] = None]
    /\ reqs' = [reqs EXCEPT ![p] = <<>>]
    /\ prev' = [prev EXCEPT ![p] = None]
    /\ store0' = [store0 EXCEPT ![p] = <<>>]
    /\ UNCHANGED <<store, passes>>

Pass(p) ==
    \/ main(p)
    \/ exit(p)
    \/ GrafanaContactPointInterface(p)
    \/ grafana_switch_organisation(p)
    \/ grafana_check_contact_point_match(p)
    \/ grafana_create_contact_point(p)
    \/ grafana_update_contact_point(p)
    \/ grafana_delete_contact_point(p)

\* Passes run one after another: one invocation at a time.
Next == \E p \in SeqProcs : Pass(p)

Spec == Init /\ [][Next]_vars

(***************************************************************************)
(* Two invocations of the module at once, each one pass, against the one   *)
(* remote: their requests interleave in any order.  Both authenticate with *)
(* an API key, so neither has a request before its list.                   *)
(***************************************************************************)
KeyAuth == {a \in AuthParams : a.grafana_api_key # None}

\* main() of an invocation that runs once.
main_once(p) ==
    /\ pc[p] = "idle"
    /\ passes < Cardinality(Procs)
    /\ passes' = passes + 1
    /\ \E d \in DesiredStates, a \in KeyAuth :
          params' = [params EXCEPT ![p] =
                [k \in DesiredFields \cup DOMAIN a |->
                    IF k \in DesiredFields THEN d[k] ELSE a[k]]]
    /\ pc' = [pc EXCEPT ![p] = "init"]
    /\ store0' = [store0 EXCEPT ![p] = store]
    /\ UNCHANGED <<store, org_id, before, payload, resp, result, exception,
                   reqs, last, prev>>

PassOnce(p) ==
    \/ main_once(p)
    \/ GrafanaContactPointInterface(p)
    \/ grafana_check_contact_point_match(p)
    \/ grafana_create_contact_point(p)
    \/ grafana_update_contact_point(p)
    \/ grafana_delete_contact_point(p)

NextConc == \E p \in Procs : PassOnce(p)

SpecConc == Init /\ [][NextConc]_vars

(***************************************************************************)
(* Vocabulary of the properties.                                           *)
(***************************************************************************)
Running(p) == pc[p] # "idle"
Done(p) == pc[p] = "done"
Failed(p) == pc[p] = "failed"
Changed(p) == Done(p) /\ result[p][1].changed
Uid(p) == params[p].uid
Mutating(r) == r.op \in {"create", "update", "delete"}
Mutations(p) == SelectSeq(reqs[p], Mutating)
LastReq(p) == reqs[p][Len(reqs[p])]
APIError(p) ==
    /\ Failed(p)
    /\ exception[p] # None
    /\ exception[p][1].type = "GrafanaAPIException"
    /\ result[p] = None
\* The previous pass had the same desired state and ran to exit_json.
Rerun(p) == Running(p) /\ prev[p] # None /\ prev[p][1].done
\* The remote answered the last request with the entry it now stores.
EchoedStored(p) ==
    /\ Uid(p) \in DOMAIN store
    /\ resp[p][1].body = Some(store[Uid(p)])

(***************************************************************************)
(* C1.  state=present, uid not on the remote, the remote answering with    *)
(* the entry it stores: the first pass reports changed=true, the pass      *)
(* repeated with the same desired state reports changed=false, and the     *)
(* remote's entry for the uid is then the built payload.                   *)
(***************************************************************************)
C1_PresentIdempotent ==
    \A p \in Procs :
        (Done(p) /\ params[p].state = "present") =>
            /\ Uid(p) \notin DOMAIN store0[p] => result[p][1].changed
            /\ (Rerun(p) /\ ~prev[p][1].had /\ EchoedStored(p)) =>
                  /\ prev[p][1].changed
                  /\ ~result[p][1].changed
                  /\ store[Uid(p)] = grafana_contact_point_payload(params[p])

C1_Witness ==
    \E p \in Procs :
        /\ Done(p) /\ params[p].state = "present"
        /\ Rerun(p) /\ ~prev[p][1].had /\ EchoedStored(p)
        /\ ~result[p][1].changed
        /\ LastReq(p).op = "update"

(***************************************************************************)
(* C2.  state=absent: a pass for a uid the remote does not hold reports    *)
(* changed=false; for a uid it holds the pass reports changed=true and the *)
(* pass repeated reports changed=false; the uid is off the remote after    *)
(* each.                                                                   *)
(***************************************************************************)
C2_AbsentIdempotent ==
    \A p \in Procs :
        (Done(p) /\ params[p].state = "absent") =>
            /\ Uid(p) \notin DOMAIN store
            /\ result[p][1].changed <=> Uid(p) \in DOMAIN store0[p]
            /\ (Rerun(p) /\ prev[p][1].had) =>
                  prev[p][1].changed /\ ~result[p][1].changed

C2_Witness ==
    \E p \in Procs :
        /\ Done(p) /\ params[p].state = "absent"
        /\ Rerun(p) /\ prev[p][1].had /\ prev[p][1].changed
        /\ ~result[p][1].changed

(***************************************************************************)
(* C3.  A pass for a uid leaves every entry of another uid as it was when  *)
(* the pass started, whatever its name, and the entry taken as 'before'    *)
(* carries the desired uid.                                                *)
(***************************************************************************)
C3_UidIsIdentity ==
    \A p \in Procs :
        Running(p) =>
            /\ \A u \in Uids \ {Uid(p)} :
                  /\ u \in DOMAIN store <=> u \in DOMAIN store0[p]
                  /\ u \in DOMAIN store => store[u] = store0[p][u]
            /\ before[p] # None => before[p][1].uid = Uid(p)

\* A pass changed the entry of its uid while another uid held an entry of
\* the same name.
C3_Witness ==
    \E p \in Procs :
        /\ Changed(p)
        /\ \E u \in DOMAIN store \ {Uid(p)} :
              /\ store[u].name = params[p].name
              /\ Uid(p) \in DOMAIN store
              /\ store[Uid(p)] # store[u]
        /\ before[p] # None

(***************************************************************************)
(* C4.  Once the list is read, what the pass does is fixed by state and    *)
(* 'before': present without a match issues one POST, present with a match *)
(* one PUT, absent with a match one DELETE, and absent without a match     *)
(* issues nothing after the list and returns changed=false.                *)
(***************************************************************************)
ListRead(p) ==
    \E i \in 1..Len(reqs[p]) :
        reqs[p][i].op = "list" /\ reqs[p][i].status = HTTP_OK

C4_ActionByStateAndBefore ==
    \A p \in Procs :
        (ListRead(p) /\ (Done(p) \/ Failed(p))) =>
            LET m == Mutations(p)
                present == params[p].state = "present"
                match == before[p] # None
            IN  /\ (present /\ ~match) =>
                      Len(m) = 1 /\ m[1].method = "POST" /\ m[1].op = "create"
                /\ (present /\ match) =>
                      Len(m) = 1 /\ m[1].method = "PUT" /\ m[1].op = "update"
                /\ (~present /\ match) =>
                      Len(m) = 1 /\ m[1].method = "DELETE" /\ m[1].op = "delete"
                /\ (~present /\ ~match) =>
                      /\ m = <<>>
                      /\ LastReq(p).op = "list"
                      /\ result[p] = Some([changed |-> FALSE])

C4_Witness ==
    \E p \in Procs :
        /\ Done(p) /\ ListRead(p)
        /\ params[p].state = "present" /\ before[p] # None
        /\ Len(Mutations(p)) = 1 /\ LastReq(p).method = "PUT"

(***************************************************************************)
(* C5.  A POST or PUT answered with anything but 202, or a DELETE answered *)
(* with anything but 202 or 404, is the last request of the pass, which    *)
(* ends with GrafanaAPIException and no result.                            *)
(***************************************************************************)
SuccessSet(op) ==
    IF op = "delete" THEN {HTTP_ACCEPTED, HTTP_NOT_FOUND} ELSE {HTTP_ACCEPTED}

C5_MutationRefusedIsFatal ==
    \A p \in Procs :
        \A i \in 1..Len(reqs[p]) :
            (Mutating(reqs[p][i]) /\ reqs[p][i].status \notin SuccessSet(reqs[p][i].op)) =>
                /\ i = Len(reqs[p])
                /\ APIError(p)
                /\ ~Changed(p)

C5_Witness ==
    \E p \in Procs :
        /\ APIError(p)
        /\ reqs[p] # <<>>
        /\ LastReq(p).op = "create" /\ LastReq(p).status = 500

(***************************************************************************)
(* C6.  A list request answered with anything but 200 is the last request  *)
(* of the pass: the pass ends with GrafanaAPIException, has issued no      *)
(* POST, PUT or DELETE, and the remote's contact points are as they were   *)
(* when the pass started.                                                  *)
(***************************************************************************)
C6_ListRefusedIsFatal ==
    \A p \in Procs :
        \A i \in 1..Len(reqs[p]) :
            (reqs[p][i].op = "list" /\ reqs[p][i].status # HTTP_OK) =>
                /\ i = Len(reqs[p])
                /\ APIError(p)
                /\ Mutations(p) = <<>>
                /\ store = store0[p]

C6_Witness ==
    \E p \in Procs :
        /\ APIError(p)
        /\ reqs[p] # <<>>
        /\ LastReq(p).op = "list" /\ LastReq(p).status = 500
        /\ params[p].state = "present"
        /\ store # <<>>

(***************************************************************************)
(* C7.  After a PUT answered with 202 the pass reports changed=false       *)
(* exactly when 'before' equals the answer's body; otherwise it reports    *)
(* changed=true with diff.before = before and diff.after = the payload     *)
(* sent.  So a pass whose payload differs from the entry the remote held   *)
(* reports changed=true with a diff.                                       *)
(***************************************************************************)
C7_UpdateReport ==
    \A p \in Procs :
        (Done(p) /\ LastReq(p).op = "update") =>
            LET r == result[p][1]
                answered == resp[p][1].body[1]
                sent == LastReq(p).body[1]
            IN  /\ LastReq(p).status = HTTP_ACCEPTED
                /\ ~r.changed <=> before[p][1] = answered
                /\ r.changed =>
                      /\ "diff" \in DOMAIN r
                      /\ r.diff = [before |-> before[p][1], after |-> sent]
                /\ store0[p][Uid(p)] # sent =>
                      r.changed /\ "diff" \in DOMAIN r

\* The payload adds a second address, and the answer is not the payload.
C7_Witness ==
    \E p \in Procs :
        /\ Done(p) /\ LastReq(p).op = "update"
        /\ result[p][1].changed
        /\ resp[p][1].body[1] # LastReq(p).body[1]
        /\ store0[p][Uid(p)].settings.addresses = Addr(1)
        /\ LastReq(p).body[1].settings.addresses = Addr(1) \o ";" \o Addr(2)
        /\ result[p][1].diff.after = LastReq(p).body[1]

(***************************************************************************)
(* C8.  A state=absent pass that follows a state=absent pass which deleted *)
(* the entry.  As claimed: it issues a DELETE that is answered 404, and    *)
(* reports changed=false.                                                  *)
(***************************************************************************)
AfterDeleted(p) ==
    /\ Done(p) /\ params[p].state = "absent"
    /\ Rerun(p) /\ prev[p][1].changed

C8_RerunDeleteGets404 ==
    \A p \in Procs :
        AfterDeleted(p) =>
            /\ \E i \in 1..Len(reqs[p]) :
                  /\ reqs[p][i].op = "delete"
                  /\ reqs[p][i].status = HTTP_NOT_FOUND
            /\ ~result[p][1].changed

(***************************************************************************)
(* C8, amended.  That pass finds no match in the list, issues no DELETE    *)
(* (nothing after the list request) and reports changed=false.             *)
(***************************************************************************)
C8_RerunIsNoOp ==
    \A p \in Procs :
        AfterDeleted(p) =>
            /\ before[p] = None
            /\ Mutations(p) = <<>>
            /\ LastReq(p).op = "list"
            /\ result[p] = Some([changed |-> FALSE])

C8_Witness ==
    \E p \in Procs : AfterDeleted(p) /\ ~result[p][1].changed

(***************************************************************************)
(* C9.  The requests of a pass come in the order organization listing,     *)
(* org switch, contact-point list, mutation, each kind at most once: no    *)
(* request is issued twice.  (fetch_url blocks: a request in the log has   *)
(* been answered before the next one is issued.)                           *)
(***************************************************************************)
Rank(r) ==
    CASE r.op = "orgs" -> 1
      [] r.op = "switch_org" -> 2
      [] r.op = "list" -> 3
      [] Mutating(r) -> 4

C9_RequestOrder ==
    \A p \in Procs :
        \A i, j \in 1..Len(reqs[p]) :
            i < j => Rank(reqs[p][i]) < Rank(reqs[p][j])

C9_Witness ==
    \E p \in Procs :
        /\ Done(p)
        /\ Len(reqs[p]) = 3
        /\ reqs[p][1].op = "switch_org"
        /\ reqs[p][2].op = "list"
        /\ Mutating(reqs[p][3])

(***************************************************************************)
(* C10.  With username/password authentication, an org-switch request      *)
(* answered with anything but 200 is the only request of the pass: the     *)
(* pass ends with GrafanaAPIException before the list request and before   *)
(* any POST, PUT or DELETE, and the remote's contact points are unchanged. *)
(***************************************************************************)
C10_SwitchRefusedAborts ==
    \A p \in Procs :
        \A i \in 1..Len(reqs[p]) :
            (reqs[p][i].op = "switch_org" /\ reqs[p][i].status # HTTP_OK) =>
                /\ params[p].grafana_api_key = None
                /\ Len(reqs[p]) = 1
                /\ APIError(p)
                /\ store = store0[p]

C10_Witness ==
    \E p \in Procs :
        /\ APIError(p)
        /\ Len(reqs[p]) = 1
        /\ reqs[p][1].op = "switch_org" /\ reqs[p][1].status = HTTP_ACCEPTED
        /\ params[p].state = "present"

(***************************************************************************)
(* C11.  With username/password authentication and an organization name:   *)
(* when an organization of exactly that name is listed, the pass issues    *)
(* an org-switch request for that organization's id; when none is, the     *)
(* pass ends with the GrafanaAPIException "Current user isn't member of    *)
(* organization" and has issued no org-switch or contact-point request.    *)
(***************************************************************************)
ByName(p) ==
    /\ pc[p] \in {"done", "failed"}
    /\ params[p].grafana_api_key = None
    /\ params[p].org_name # None

C11_OrgResolvedByName ==
    \A p \in Procs :
        ByName(p) =>
            IF \E org \in Organizations : org.name = params[p].org_name[1]
            THEN \E i \in 1..Len(reqs[p]), org \in Organizations :
                    /\ org.name = params[p].org_name[1]
                    /\ reqs[p][i].op = "switch_org"
                    /\ reqs[p][i].path =
                          "/api/user/using/" \o ToString(org.orgId)
            ELSE /\ APIError(p)
                 /\ exception[p][1].msg =
                       "Current user isn't member of organization"
                 /\ \A i \in 1..Len(reqs[p]) : reqs[p][i].op = "orgs"

(***************************************************************************)
(* C12.  Once the interface is constructed or its construction has failed, *)
(* a pass with an API key has issued no organization-listing and no        *)
(* org-switch request; a pass with username/password has issued exactly    *)
(* one org-switch request, before the list request, for the resolved       *)
(* organization id: the configured org_id when no org_name is given.       *)
(***************************************************************************)
IsSwitch(r) == r.op = "switch_org"
IsOrgList(r) == r.op = "orgs"

ResolvedOrgId(p) ==
    IF params[p].org_name = None
    THEN params[p].org_id
    ELSE (CHOOSE org \in Organizations : org.name = params[p].org_name[1]).orgId

C12_SwitchOnlyWithPassword ==
    \A p \in Procs :
        pc[p] \in {"check", "create", "update", "delete", "done", "failed"} =>
            IF params[p].grafana_api_key # None
            THEN /\ SelectSeq(reqs[p], IsSwitch) = <<>>
                 /\ SelectSeq(reqs[p], IsOrgList) = <<>>
            ELSE /\ Len(SelectSeq(reqs[p], IsSwitch)) = 1
                 /\ \E i \in 1..Len(reqs[p]) :
                       /\ IsSwitch(reqs[p][i])
                       /\ reqs[p][i].path =
                             "/api/user/using/" \o ToString(ResolvedOrgId(p))
                       /\ \A j \in 1..Len(reqs[p]) :
                             reqs[p][j].op = "list" => i < j

(***************************************************************************)
(* C13.  The body of every POST and PUT is the payload built from the      *)
(* desired state of the pass and from nothing else: whatever the remote    *)
(* held, and whatever entry was found as 'before', passes with the same    *)
(* desired state send the same body.                                       *)
(***************************************************************************)
C13_BodyFromDesiredStateOnly ==
    \A p \in Procs :
        \A i \in 1..Len(reqs[p]) :
            reqs[p][i].op \in {"create", "update"} =>
                reqs[p][i].body =
                    Some(grafana_contact_point_payload(Desired(params[p])))

\* A PUT was sent while the entry found had a setting the payload lacks.
C13_Witness ==
    \E p \in Procs :
        /\ reqs[p] # <<>>
        /\ LastReq(p).op = "update"
        /\ "singleEmail" \in DOMAIN before[p][1].settings
        /\ "singleEmail" \notin DOMAIN LastReq(p).body[1].settings
        /\ before[p][1].settings.uploadImage
              # LastReq(p).body[1].settings.uploadImage

(***************************************************************************)
(* C14.  For type=email the built payload has settings.addresses = the     *)
(* addresses in their order with ';' between them, settings.uploadImage =  *)
(* include_image, and the key settings.singleEmail exactly when            *)
(* email_single is true, with that value; omitted or false, no key.        *)
(***************************************************************************)
RECURSIVE Separated(_)
\* The addresses written out from the left: a, then ";" and the next, ...
Separated(l) ==
    IF Len(l) = 1 THEN l[1]
    ELSE Separated(SubSeq(l, 1, Len(l) - 1)) \o ";" \o l[Len(l)]

C14_EmailPayload ==
    \A p \in Procs :
        (payload[p] # None /\ params[p].type = Some("email")) =>
            LET settings == payload[p][1].settings
            IN  /\ settings.addresses = Separated(params[p].email_addresses[1])
                /\ settings.uploadImage = params[p].include_image
                /\ "singleEmail" \in DOMAIN settings
                      <=> params[p].email_single = Some(TRUE)
                /\ "singleEmail" \in DOMAIN settings =>
                      settings.singleEmail = params[p].email_single[1]
                /\ DOMAIN settings \subseteq
                      {"addresses", "uploadImage", "singleEmail"}

C14_Witness ==
    \E p \in Procs :
        /\ payload[p] # None
        /\ params[p].email_addresses = Some(<<Addr(1), Addr(2)>>)
        /\ params[p].email_single = Some(TRUE)
        /\ payload[p][1].settings =
              [uploadImage |-> TRUE,
               addresses |-> "u1@example.com;u2@example.com",
               singleEmail |-> TRUE]

\* email_single given as false: the key is left out.
C14_WitnessFalse ==
    \E p \in Procs :
        /\ payload[p] # None
        /\ params[p].email_single = Some(FALSE)
        /\ "singleEmail" \notin DOMAIN payload[p][1].settings

(***************************************************************************)
(* C15.  A pass that reports changed=true has issued exactly one mutating  *)
(* request (POST, PUT or DELETE) and that request was answered with 202;   *)
(* so a pass with no mutating request, or with one answered otherwise,     *)
(* never reports changed=true.                                             *)
(***************************************************************************)
C15_ChangedMeansOneAccepted ==
    \A p \in Procs :
        (result[p] # None /\ result[p][1].changed) =>
            /\ Len(Mutations(p)) = 1
            /\ Mutations(p)[1].status = HTTP_ACCEPTED

C15_Witness ==
    \E p \in Procs :
        /\ Changed(p)
        /\ Len(Mutations(p)) = 1
        /\ Mutations(p)[1].op = "create"
        /\ Mutations(p)[1].status = HTTP_ACCEPTED

(***************************************************************************)
(* C18.  state=present and the list holds the uid: the pass issues a PUT,  *)
(* also when the listed entry equals the built payload; no result exists   *)
(* before the PUT is answered, a result after a PUT means the PUT was      *)
(* accepted, and changed is then "before differs from the answer".         *)
(***************************************************************************)
IsPut(r) == r.op = "update" /\ r.method = "PUT"

C18_PutAlwaysIssued ==
    \A p \in Procs :
        /\ (/\ ListRead(p)
            /\ params[p].state = "present"
            /\ before[p] # None
            /\ pc[p] \in {"done", "failed"})
              => /\ Len(SelectSeq(reqs[p], IsPut)) = 1
                 /\ IsPut(LastReq(p))
                 /\ LastReq(p).body = payload[p]
        /\ pc[p] = "update" => result[p] = None /\ Mutations(p) = <<>>
        /\ (result[p] # None /\ SelectSeq(reqs[p], IsPut) # <<>>)
              => /\ LastReq(p).status = HTTP_ACCEPTED
                 /\ result[p][1].changed = (before[p] # resp[p][1].body)

\* The listed entry equals the payload, the PUT goes out all the same and
\* the answer, not that equality, decides: changed=true is reported.
C18_Witness ==
    \E p \in Procs :
        /\ Done(p)
        /\ before[p] # None
        /\ before[p] = payload[p]
        /\ IsPut(LastReq(p))
        /\ LastReq(p).status = HTTP_ACCEPTED
        /\ result[p][1].changed

\* The same, the answer echoing the listed entry: changed=false.
C18_WitnessUnchanged ==
    \E p \in Procs :
        /\ Done(p)
        /\ before[p] # None
        /\ before[p] = payload[p]
        /\ IsPut(LastReq(p))
        /\ ~result[p][1].changed

(***************************************************************************)
(* C16.  Two invocations at once.  A DELETE is issued only right after a   *)
(* list answer that held the uid.  A DELETE answered 404 ends the pass     *)
(* with changed=false and no error, and happens only when the other        *)
(* invocation had its own DELETE of that uid accepted after this pass's    *)
(* list; an invocation whose peer wrote nothing never gets the 404.        *)
(***************************************************************************)
Delete404(p) ==
    /\ reqs[p] # <<>>
    /\ LastReq(p).op = "delete"
    /\ LastReq(p).status = HTTP_NOT_FOUND

RemovedBy(q, uid) ==
    /\ params[q] # None
    /\ params[q].uid = uid
    /\ \E i \in 1..Len(reqs[q]) :
          reqs[q][i].op = "delete" /\ reqs[q][i].status = HTTP_ACCEPTED

C16_DeleteOnlyAfterMatch ==
    \A p \in Procs :
        /\ \A i \in 1..Len(reqs[p]) :
              reqs[p][i].op = "delete" =>
                  /\ i > 1
                  /\ reqs[p][i - 1].op = "list"
                  /\ reqs[p][i - 1].status = HTTP_OK
                  /\ before[p] # None
                  /\ before[p][1].uid = Uid(p)
        /\ Delete404(p) =>
              /\ Done(p)
              /\ ~result[p][1].changed
              /\ exception[p] = None
              /\ Uid(p) \notin DOMAIN store
              /\ \E q \in Procs \ {p} : RemovedBy(q, Uid(p))

C16_Witness ==
    \E p \in Procs :
        /\ Delete404(p)
        /\ Done(p)
        /\ ~result[p][1].changed
        /\ before[p] # None
        /\ \E q \in Procs \ {p} : RemovedBy(q, Uid(p)) /\ Changed(q)

(***************************************************************************)
(* C17.  Two invocations at once, both state=present for one uid with      *)
(* different desired states.  Every accepted POST or PUT leaves the        *)
(* remote's entry equal to the whole payload of the pass that sent it, and *)
(* nothing else changes the remote; so once both have ended and a write    *)
(* was accepted, the entry is the payload of one pass entire, the one      *)
(* written last, never fields of both.  (That both may select Create and   *)
(* POST from a remote without the uid is what C17_Witness reaches.)        *)
(***************************************************************************)
Ended(p) == pc[p] \in {"done", "failed"}

Wrote(p) ==
    \E i \in 1..Len(reqs[p]) :
        reqs[p][i].op \in {"create", "update"}
            /\ reqs[p][i].status = HTTP_ACCEPTED

\* The step in which a POST or PUT of pass p is accepted.
WriteAccepted(p) ==
    /\ Len(reqs'[p]) = Len(reqs[p]) + 1
    /\ reqs'[p][Len(reqs'[p])].op \in {"create", "update"}
    /\ reqs'[p][Len(reqs'[p])].status = HTTP_ACCEPTED

Racing ==
    /\ \A p \in Procs : params[p] # None /\ params[p].state = "present"
    /\ params[1].uid = params[2].uid
    /\ Desired(params[1]) # Desired(params[2])

LastWriteInStore ==
    (Racing /\ (\A p \in Procs : Ended(p)) /\ (\E p \in Procs : Wrote(p))) =>
        /\ Uid(1) \in DOMAIN store
        /\ store[Uid(1)] \in {payload[p][1] : p \in {q \in Procs : Wrote(q)}}

WriteIsWholePayload ==
    /\ \A p \in Procs :
          WriteAccepted(p) => /\ Uid(p) \in DOMAIN store'
                              /\ store'[Uid(p)] = payload[p][1]
    /\ store' # store =>
          \E p \in Procs :
              /\ reqs'[p] # reqs[p]
              /\ Mutating(reqs'[p][Len(reqs'[p])])
              /\ reqs'[p][Len(reqs'[p])].status = HTTP_ACCEPTED

C17_LastWriteWins == []LastWriteInStore /\ [][WriteIsWholePayload]_vars

\* From a remote without the uid both passes found nothing, both took
\* Create, both POSTs were accepted, and the entry is one payload entire.
C17_Witness ==
    /\ Racing
    /\ \A p \in Procs :
          /\ Done(p)
          /\ Uid(p) \notin DOMAIN store0[p]
          /\ before[p] = None
          /\ Len(Mutations(p)) = 1
          /\ Mutations(p)[1].op = "create"
          /\ Mutations(p)[1].method = "POST"
          /\ Changed(p)
    /\ payload[1] # payload[2]
    /\ store[Uid(1)] = payload[2][1]

====
